---- MODULE Spec2Model ----
(***************************************************************************)
(* MapTab.vue (both variants kept in the file: the first draws only the    *)
(* even grid lines with a 7.5% height offset, the second draws every line  *)
(* with baseline points and a 10% offset) and the operations around it:    *)
(* data load, bounded map creation, full draw, reflow, navigation, resize  *)
(* debounce, direction toggle and unmount.                                 *)
(*                                                                         *)
(* Numbers.  Geographic coordinates are integers in millidegrees.  Screen  *)
(* quantities (pixels, projection scale, translate, height offsets) are    *)
(* integers in units of 1/SubPx pixel; a division that is not exact is     *)
(* rounded down to that unit.  d3 (7+, README) is a library outside the    *)
(* repository: scaleLinear is modelled by its normalize/interpolate code   *)
(* and geoAzimuthalEquidistant by its rotation, its raw projection and its *)
(* scale and translate, computed in millionths of the unit sphere and      *)
(* rounded to the nearest screen unit.                                     *)
(***************************************************************************)
EXTENDS Integers, Sequences, FiniteSets, TLC

\* ---------------------------------------------------------------- bounds
MaxFeatures == 3
\* the 1000 ms timers of navigateToTaiwan that may be pending at once
MaxStoreTimers == 2

\* ------------------------------------------------------------- constants
Undefined == -999
SubPx == 2
padding == 32
maxAttempts == 20
\* one, pi and the radians of a degree, in millionths
Unit == 1000000
Pi == 3141593
RadiansPerDegree == 17453293

Min(a, b) == IF a <= b THEN a ELSE b
Max(a, b) == IF a >= b THEN a ELSE b
Abs(a) == IF a < 0 THEN 0 - a ELSE a

RECURSIVE Gcd(_, _)
Gcd(a, b) == IF b = 0 THEN a ELSE Gcd(b, a % b)

\* a number that need not be an integer (avgValue), in lowest terms
Rat(n, d) == LET c == Gcd(Abs(n), d) IN [num |-> n \div c, den |-> d \div c]

\* --------------------------------------------------------------- features
\* f.properties?.value || 0
ValueOf(f) == IF f.value = Undefined THEN 0 ELSE f.value

\* the powers of two from 2^0 to 2^21
PowersOfTwo ==
    << 1, 2, 4, 8, 16, 32, 64, 128, 256, 512, 1024, 2048, 4096, 8192, 16384, 32768,
       65536, 131072, 262144, 524288, 1048576, 2097152 >>
Pow2(n) == PowersOfTwo[n + 1]

\* 2^n modulo 1000, n <= 63, from three factors that fit
Pow2Mod1000(n) ==
    ((((Pow2(n \div 3) % 1000) * (Pow2(n \div 3) % 1000)) % 1000)
     * (Pow2(n - 2 * (n \div 3)) % 1000)) % 1000

\* the binary exponent of the positive number a / d: floor(log2(a / d))
Log2Floor(a, d) ==
    CHOOSE e \in -11..16 :
        IF e >= 0 THEN d * Pow2(e) <= a /\ a < 2 * d * Pow2(e)
        ELSE d <= a * Pow2(0 - e) /\ a * Pow2(0 - e) < 2 * d

\* where the double c * 100 lies, for a coordinate of m thousandths with last
\* digit 5 (c * 100 is k + 0.5 in the decimals): the double nearest to m / 1000
\* is off by RepresentationError / 1000 units in its last place, the product
\* with 100 is rounded to the nearest double, and k + 0.5 is a double itself.
\* -1 below k + 0.5, 0 on it, 1 above it.
RepresentationError(m) ==
    LET r == ((m % 1000) * Pow2Mod1000(52 - Log2Floor(m, 1000))) % 1000
    IN IF r < 500 THEN 0 - r ELSE 1000 - r
TieSide(m) ==
    LET half == 5 * Pow2(Log2Floor(m, 10) - Log2Floor(m, 1000))
        d == RepresentationError(m)
    IN IF d > half THEN 1 ELSE IF d < 0 - half THEN -1 ELSE 0

\* Math.round(c * 100) / 100 of the double c, with c given in millidegrees (the
\* decimal text of the data file), in hundredths of a degree. Math.round
\* rounds a half towards plus infinity.
RoundKey(c) ==
    IF Abs(c) % 10 # 5 THEN (c + 5) \div 10
    ELSE IF c > 0
         THEN (IF TieSide(c) = -1 THEN c \div 10 ELSE c \div 10 + 1)
         ELSE (IF TieSide(0 - c) = 1 THEN 0 - ((0 - c) \div 10) - 1
               ELSE 0 - ((0 - c) \div 10))

\* latKey / lonKey of one feature
GroupKeyRoundOnly(f, dir) ==
    IF dir = "y" THEN [grid |-> FALSE, k |-> RoundKey(f.lat)]
    ELSE [grid |-> FALSE, k |-> RoundKey(f.lon)]
GroupKey(f, dir) ==
    IF dir = "y"
    THEN IF f.grid_y # Undefined THEN [grid |-> TRUE, k |-> f.grid_y]
         ELSE [grid |-> FALSE, k |-> RoundKey(f.lat)]
    ELSE IF f.grid_x # Undefined THEN [grid |-> TRUE, k |-> f.grid_x]
         ELSE [grid |-> FALSE, k |-> RoundKey(f.lon)]

PointOf(f) == [lon |-> f.lon, lat |-> f.lat, value |-> ValueOf(f), isBasePoint |-> FALSE]

\* groups.has(key): the position of the key in the Map's insertion order, or 0
GroupIndex(groups, key) ==
    IF \E i \in 1..Len(groups) : groups[i].key = key
    THEN CHOOSE i \in 1..Len(groups) : groups[i].key = key
    ELSE 0

\* one iteration of features.forEach
AddFeature(groups, f, dir) ==
    LET key == GroupKey(f, dir)
        i == GroupIndex(groups, key)
    IN IF i = 0
       THEN Append(groups,
                   [key |-> key,
                    coord |-> IF dir = "y" THEN f.lat ELSE f.lon,
                    gridCoord |-> IF dir = "y" THEN f.grid_y ELSE f.grid_x,
                    points |-> <<PointOf(f)>>,
                    isYAxis |-> (dir = "y")])
       ELSE [groups EXCEPT ![i].points = Append(@, PointOf(f))]

RECURSIVE GroupFrom(_, _, _, _)
GroupFrom(groups, features, i, dir) ==
    IF i > Len(features) THEN groups
    ELSE GroupFrom(AddFeature(groups, features[i], dir), features, i + 1, dir)

\* the Map built by features.forEach, in insertion order
GroupFeatures(features, dir) == GroupFrom(<<>>, features, 1, dir)

\* feature.geometry.coordinates of a feature without geometry throws
Throws(features) == \E i \in 1..Len(features) : ~features[i].geometry

\* ------------------------------------------------------------------ sort
CrossCoord(p, isYAxis) == IF isYAxis THEN p.lon ELSE p.lat

\* insert p after the last element that is not greater (Array.prototype.sort is stable)
RECURSIVE InsertSorted(_, _, _)
InsertSorted(s, p, isYAxis) ==
    IF s = <<>> THEN <<p>>
    ELSE IF CrossCoord(s[Len(s)], isYAxis) <= CrossCoord(p, isYAxis)
         THEN Append(s, p)
         ELSE Append(InsertSorted(SubSeq(s, 1, Len(s) - 1), p, isYAxis), s[Len(s)])

RECURSIVE SortFrom(_, _, _, _)
SortFrom(acc, s, i, isYAxis) ==
    IF i > Len(s) THEN acc
    ELSE SortFrom(InsertSorted(acc, s[i], isYAxis), s, i + 1, isYAxis)

SortPointsUnsorted(points, isYAxis) == points
SortPoints(points, isYAxis) == SortFrom(<<>>, points, 1, isYAxis)

RECURSIVE SumValues(_, _)
SumValues(s, i) == IF i > Len(s) THEN 0 ELSE s[i].value + SumValues(s, i + 1)

RECURSIVE MaxOfValues(_, _)
MaxOfValues(s, i) ==
    IF i = Len(s) THEN s[i].value ELSE Max(s[i].value, MaxOfValues(s, i + 1))

AvgValueFirstLast(sortedPoints) ==
    Rat(sortedPoints[1].value + sortedPoints[Len(sortedPoints)].value, 2)
AvgValue(sortedPoints) == Rat(SumValues(sortedPoints, 1), Len(sortedPoints))
MaxValueInGroup(sortedPoints) == MaxOfValues(sortedPoints, 1)

\* -------------------------------------------------------------- lineData
\* the first variant keeps a group only when its grid coordinate is even or absent
KeepGroup(group) == group.gridCoord # Undefined => group.gridCoord % 2 = 0

\* lonStep / latStep: mean spacing of the sorted points, 0.01 degree for one point
StepOfFirstGap(sortedPoints, isYAxis) ==
    IF Len(sortedPoints) > 1
    THEN CrossCoord(sortedPoints[2], isYAxis) - CrossCoord(sortedPoints[1], isYAxis)
    ELSE 10
StepOf(sortedPoints, isYAxis) ==
    IF Len(sortedPoints) > 1
    THEN (CrossCoord(sortedPoints[Len(sortedPoints)], isYAxis)
          - CrossCoord(sortedPoints[1], isYAxis)) \div (Len(sortedPoints) - 1)
    ELSE 10

BasePoint(group, cross) ==
    IF group.isYAxis
    THEN [lon |-> cross, lat |-> group.coord, value |-> 0, isBasePoint |-> TRUE]
    ELSE [lon |-> group.coord, lat |-> cross, value |-> 0, isBasePoint |-> TRUE]

\* closedPoints: the sorted points as they are (first variant), or between two
\* baseline points one step outside them (second variant)
ClosedPoints(variant, group, sortedPoints) ==
    IF variant = 1 THEN sortedPoints
    ELSE IF Len(sortedPoints) = 0 THEN <<>>
    ELSE LET step == StepOf(sortedPoints, group.isYAxis)
             first == CrossCoord(sortedPoints[1], group.isYAxis)
             last == CrossCoord(sortedPoints[Len(sortedPoints)], group.isYAxis)
         IN <<BasePoint(group, first - step)>> \o sortedPoints
            \o <<BasePoint(group, last + step)>>

LineDatum(variant, group) ==
    LET sortedPoints == SortPoints(group.points, group.isYAxis)
    IN [coord |-> group.coord,
        gridCoord |-> group.gridCoord,
        isYAxis |-> group.isYAxis,
        points |-> sortedPoints,
        closedPoints |-> ClosedPoints(variant, group, sortedPoints),
        avgValue |-> AvgValue(sortedPoints),
        maxValue |-> MaxValueInGroup(sortedPoints)]

RECURSIVE FilterGroups(_, _)
FilterGroups(groups, i) ==
    IF i > Len(groups) THEN <<>>
    ELSE (IF KeepGroup(groups[i]) THEN <<groups[i]>> ELSE <<>>)
         \o FilterGroups(groups, i + 1)

DrawnGroups(variant, groups) ==
    IF variant = 1 THEN FilterGroups(groups, 1) ELSE groups

\* the Map after lineData was made: group.points.sort(...) sorts the points of
\* every group that passes the filter in place
SortedInPlace(variant, groups) ==
    [i \in 1..Len(groups) |->
        IF variant = 2 \/ KeepGroup(groups[i])
        THEN [groups[i] EXCEPT !.points = SortPoints(@, groups[i].isYAxis)]
        ELSE groups[i]]

\* Array.from(groups.values()).filter(...).map(...)
LineData(variant, groups) ==
    LET kept == DrawnGroups(variant, groups)
    IN [i \in 1..Len(kept) |-> LineDatum(variant, kept[i])]

\* ----------------------------------------------------------- heightScale
RECURSIVE MinFeatureValue(_, _)
MinFeatureValue(features, i) ==
    IF i = Len(features) THEN ValueOf(features[i])
    ELSE Min(ValueOf(features[i]), MinFeatureValue(features, i + 1))

RECURSIVE MaxFeatureValue(_, _)
MaxFeatureValue(features, i) ==
    IF i = Len(features) THEN ValueOf(features[i])
    ELSE Max(ValueOf(features[i]), MaxFeatureValue(features, i + 1))

\* rect.height * 0.075 (first variant), rect.height * 0.1 (second variant)
MaxHeightOffset(variant, height) ==
    IF variant = 1 THEN (height * SubPx * 75) \div 1000
    ELSE (height * SubPx) \div 10

\* d3.scaleLinear().domain([minValue, maxValue]).range([0, maxHeightOffset])
ScaleLinear(features, variant, height) ==
    [minValue |-> MinFeatureValue(features, 1),
     maxValue |-> MaxFeatureValue(features, 1),
     maxHeightOffset |-> MaxHeightOffset(variant, height)]

\* d3 normalize(): (x - a) / (b - a), or the constant 0.5 when b = a;
\* then interpolateNumber(0, maxHeightOffset)
HeightScaleHalfRange(hs, v) ==
    ((v - hs.minValue) * hs.maxHeightOffset) \div (2 * Max(1, hs.maxValue - hs.minValue))
HeightScale(hs, v) ==
    IF hs.maxValue = hs.minValue THEN hs.maxHeightOffset \div 2
    ELSE ((v - hs.minValue) * hs.maxHeightOffset) \div (hs.maxValue - hs.minValue)

\* ----------------------------------------------------- feature documents
Feature(lon, lat, value, gx, gy) ==
    [geometry |-> TRUE, lon |-> lon, lat |-> lat, value |-> value,
     grid_x |-> gx, grid_y |-> gy]

\* a feature with no geometry member
Malformed ==
    [geometry |-> FALSE, lon |-> 0, lat |-> 0, value |-> 1,
     grid_x |-> Undefined, grid_y |-> Undefined]

\* features of a point grid around Taiwan: with grid indices (one row at two
\* latitudes, two rows at one latitude, an odd row, one column at two
\* longitudes), without grid indices (two that round to the same hundredth, one
\* on the rounding boundary), without a value, without geometry, and one
\* feature twice
FeaturePool ==
    << Feature(121000, 23500, 2, 0, 0),
       Feature(121100, 23700, 4, 1, 0),
       Feature(120950, 23500, 1, 0, 1),
       Feature(121004, 23504, 3, Undefined, Undefined),
       Feature(120996, 23496, Undefined, Undefined, Undefined),
       Feature(121005, 23505, 5, Undefined, Undefined),
       Malformed,
       Feature(121000, 23500, 2, 0, 0) >>

\* every sequence of at most MaxFeatures distinct pool entries, in every order
PoolCollections ==
    UNION { { [i \in 1..n |-> FeaturePool[ix[i]]] :
                ix \in { f \in [1..n -> 1..Len(FeaturePool)] :
                           \A a, b \in 1..n : a # b => f[a] # f[b] } } :
            n \in 0..MaxFeatures }

\* four points of row 0 with longitudes 10, 20, 30, 40 and values 1, 2, 3, 4
ScenarioRow ==
    << Feature(30000, 23500, 3, 2, 0), Feature(10000, 23500, 1, 0, 0),
       Feature(40000, 23500, 4, 3, 0), Feature(20000, 23500, 2, 1, 0) >>

\* value range [0, 10] with a feature of value 5
ScenarioRange ==
    << Feature(121000, 23500, 0, 0, 0), Feature(121100, 23500, 5, 1, 0),
       Feature(121100, 23600, 10, 1, 2) >>

Mixed ==
    << FeaturePool[2], FeaturePool[1], FeaturePool[3], FeaturePool[6], FeaturePool[4],
       FeaturePool[5] >>

\* every feature has the same value
Degenerate == << Feature(121000, 23500, 2, 0, 0), Feature(121100, 23700, 2, 1, 0) >>

\* coordinates without grid indices that end in a half hundredth: as doubles
\* 0.145 * 100 is below 14.5 and 1.005 * 100 is below 100.5
Ties ==
    << Feature(1005, 145, 1, Undefined, Undefined),
       Feature(1000, 150, 2, Undefined, Undefined),
       Feature(1010, 140, 3, Undefined, Undefined) >>

\* two features at one place with one value in different rows
Twins ==
    << Feature(121000, 23500, 1, 0, 0),
       Feature(121000, 23500, 1, 0, 2),
       Feature(121100, 23500, 2, 1, 0) >>

\* documents a fetch can deliver in the full specification
Datasets == { Mixed, <<>>, <<FeaturePool[1], Malformed>> }

\* documents of the drawing specification
Collections == PoolCollections \cup { ScenarioRow, ScenarioRange, Mixed, Degenerate, Ties, Twins }

\* rotate([-121.057677, -23.608688]) of createMap, as a centre
InitialCenter == <<121058, 23609>>
\* taiwanCenter of the data store
taiwanCenter == <<120982, 23974>>
\* a centre on the other side of the globe
FarCenter == <<-75000, 40000>>
Centers == { InitialCenter, taiwanCenter, FarCenter }

\* ------------------------------------------------------------ projection
NoProjection == [exists |-> FALSE, rotate |-> <<0, 0>>, scale |-> 0, translate |-> <<0, 0>>]

\* Math.min(availableWidth, availableHeight) / 0.08
ScaleFor(width, height) ==
    (Min(width - padding * 2, height - padding * 2) * SubPx * 100) \div 8

\* [width / 2, height / 2]
TranslateFor(width, height) == <<(width * SubPx) \div 2, (height * SubPx) \div 2>>

\* rotate([-center[0], -center[1]])
RotateFor(center) == <<0 - center[1], 0 - center[2]>>

\* Numbers of the unit sphere are kept in millionths. Mul(a, b) is a * b of
\* such numbers, rounded to the nearest, and Div(a, b) is a / b, rounded down,
\* computed in parts that stay within 32 bits.
MulAbs(a, b) ==
    (a \div 1000) * (b \div 1000)
    + ((a \div 1000) * (b % 1000) + (a % 1000) * (b \div 1000)
       + ((a % 1000) * (b % 1000) + 500) \div 1000 + 500) \div 1000
Mul(a, b) ==
    IF (a < 0) = (b < 0) THEN MulAbs(Abs(a), Abs(b)) ELSE 0 - MulAbs(Abs(a), Abs(b))

Div(a, b) ==
    (a \div b) * Unit
    + ((((a % b) * 1000) \div b) * 1000)
    + ((((a % b) * 1000) % b) * 1000) \div b

\* the sine of x radians, -pi/2 <= x <= pi/2, by its series up to x^11:
\* x * (1 - w/6 * (1 - w/20 * (1 - w/42 * (1 - w/72 * (1 - w/110))))), w = x^2
SinDivisors == <<6, 20, 42, 72, 110>>
RECURSIVE SinTerm(_, _)
SinTerm(w, i) ==
    IF i > Len(SinDivisors) THEN Unit
    ELSE Unit - Mul(w, SinTerm(w, i + 1)) \div SinDivisors[i]
SinRad(x) == Mul(x, SinTerm(Mul(x, x), 1))

\* sine and cosine of an angle in millidegrees (radians = degrees * pi / 180)
Sin(mdeg) ==
    LET a == ((mdeg + 180000) % 360000) - 180000
    IN SinRad(Mul(IF a > 90000 THEN 180000 - a
                  ELSE IF a < -90000 THEN -180000 - a
                  ELSE a,
                  RadiansPerDegree))
Cos(mdeg) == Sin(mdeg + 90000)

\* the square root of u, by Newton's iteration from the estimate s >= sqrt(u)
RECURSIVE Sqrt(_, _)
Sqrt(u, s) ==
    IF (s + Div(u, s)) \div 2 >= s THEN s ELSE Sqrt(u, (s + Div(u, s)) \div 2)

\* the arc tangent of v, |v| <= tan(pi/8), by its series up to v^15:
\* v * (1 - w * (1/3 - w * (1/5 - ... - w * (1/13 - w/15)))), w = v^2
RECURSIVE AtanTerm(_, _)
AtanTerm(w, i) ==
    IF i > 7 THEN Unit \div 15
    ELSE Unit \div (2 * i - 1) - Mul(w, AtanTerm(w, i + 1))
AtanSmall(v) == Mul(v, AtanTerm(Mul(v, v), 1))

\* the arc tangent of t, 0 <= t <= 1: atan(t) = pi/4 - atan((1 - t) / (1 + t))
Atan(t) ==
    IF t > 414214 THEN Pi \div 4 - AtanSmall(Div(Unit - t, Unit + t))
    ELSE AtanSmall(t)

\* the angle of cosine c whose sine is s >= 0, from a = atan(min / max) of
\* the two: atan2(s, c)
AngleFrom(a, steep, ahead) ==
    IF steep
    THEN (IF ahead THEN a ELSE Pi - a)
    ELSE (IF ahead THEN Pi \div 2 - a ELSE Pi \div 2 + a)
Acos(c, s) ==
    AngleFrom(Atan(IF Abs(c) >= s THEN Div(s, Abs(c)) ELSE Div(Abs(c), s)),
              Abs(c) >= s, c > 0)

\* angle / sin(angle) for the angle of cosine c and sine s > 0
AngleOverSine(c, s) == Div(Acos(c, s), s)

\* c / sin(c) for the angular distance of cosine c and squared sine u: the
\* series of asin(s) / s near the centre (1 where u is below a millionth),
\* the angle over its sine elsewhere
FactorOf(c, u) ==
    IF c > 0 /\ u < 40000
    THEN Unit + u \div 6 + Mul(u, Mul(u, 75000 + Mul(u, 44643)))
    ELSE AngleOverSine(c, Sqrt(u, Unit))

\* (c = acos(cxcy)) && c / sin(c) of azimuthalRaw, for the rotated point of
\* cosine c, y to the east and k to the north: 0 only where acos is 0, which
\* is the centre itself
DistanceFactor(c, y, k) ==
    IF y = 0 /\ k = 0 /\ c > 0 THEN 0
    ELSE FactorOf(c, Mul(y, y) + Mul(k, k))

\* azimuthalRaw on the rotated point of cosine c towards the centre, y to
\* the east and k to the north: <<x, y>> on the plane, in radians
AzimuthalScaled(factor, y, k) == <<Mul(factor, y), Mul(factor, k)>>
AzimuthalRaw(c, y, k) == AzimuthalScaled(DistanceFactor(c, y, k), y, k)

\* rotationPhiGamma(deltaPhi, 0) on the point <<x, y, z>> of the sphere
RotatePhi(x, y, z, cosDeltaPhi, sinDeltaPhi) ==
    AzimuthalRaw(Mul(x, cosDeltaPhi) - Mul(z, sinDeltaPhi), y,
                 Mul(z, cosDeltaPhi) + Mul(x, sinDeltaPhi))

\* rotation by rotate = [deltaLambda, deltaPhi] and the raw azimuthal
\* equidistant projection of the point
RawComputed(rotate, lon, lat) ==
    RotatePhi(Mul(Cos(lon + rotate[1]), Cos(lat)), Mul(Sin(lon + rotate[1]), Cos(lat)),
              Sin(lat), Cos(rotate[2]), Sin(rotate[2]))

\* the number of features of the document c in the group of its feature a
GroupSize(c, a, dir) ==
    Cardinality({ k \in 1..Len(c) : GroupKey(c[k], dir) = GroupKey(c[a], dir) })

\* lonStep / latStep of a group of n points from the point p to the point q
StepBetween(n, p, q, dir) ==
    IF n > 1
    THEN (IF dir = "y" THEN q.lon - p.lon ELSE q.lat - p.lat) \div (n - 1)
    ELSE 10

\* the baseline points one step before p and after q at the coordinate of a
BaselinePair(a, p, q, step, dir) ==
    IF dir = "y"
    THEN { <<p.lon - step, a.lat>>, <<q.lon + step, a.lat>> }
    ELSE { <<a.lon, p.lat - step>>, <<a.lon, q.lat + step>> }

\* the baseline points of the second variant's lines for the document c: for
\* every feature a and features p and q taken as the ends of its group
BaselinePoints(c, dir) ==
    UNION { UNION { BaselinePair(c[apq[1]], c[apq[2]], c[apq[3]], step, dir) :
                      step \in { StepBetween(GroupSize(c, apq[1], dir),
                                             c[apq[2]], c[apq[3]], dir) } } :
            apq \in (1..Len(c)) \X (1..Len(c)) \X (1..Len(c)) }

\* every point a draw of a document projects, in either direction
KnownPoints ==
    UNION { { <<c[i].lon, c[i].lat>> : i \in 1..Len(c) }
            \cup UNION { BaselinePoints(c, dir) : dir \in { "x", "y" } } : c \in Collections }

\* RawComputed of the known points under the rotation of each centre,
\* computed once
RawTable ==
    [rotate \in { RotateFor(center) : center \in Centers } |->
        [point \in KnownPoints |-> RawComputed(rotate, point[1], point[2])]]

Raw(rotate, lon, lat) ==
    CHOOSE raw \in { IF key[1] \in DOMAIN table /\ key[2] \in DOMAIN table[key[1]]
                     THEN table[key[1]][key[2]]
                     ELSE RawComputed(key[1], key[2][1], key[2][2]) :
                     key \in { <<rotate, <<lon, lat>>>> },
                     table \in { RawTable } } : TRUE

\* projection([lon, lat]): translate + scale * raw, y pointing down, rounded
\* to the nearest position. d3's projection(point) transforms the point alone
\* (clipAngle clips streamed geometry only), so it has a value for every point.
Project(proj, lon, lat) ==
    CHOOSE position \in
        { <<proj.translate[1] + (Mul(2 * proj.scale, raw[1]) + 1) \div 2,
            proj.translate[2] - (Mul(2 * proj.scale, raw[2]) + 1) \div 2>> :
            raw \in { Raw(proj.rotate, lon, lat) } } : TRUE

\* ------------------------------------------------------ screen positions
\* lineGenerator .x / .y of drawPointsMap, and cx / cy of its points: the value
\* offsets y upwards in 'y' mode; in 'x' mode it offsets x to the right (first
\* variant) or to the left (second variant). A null projection gives 0.
DrawVertex(variant, dir, proj, hs, p) ==
    LET base == Project(proj, p.lon, p.lat)
        h == HeightScale(hs, p.value)
    IN IF base = <<>> THEN <<0, 0>>
       ELSE <<IF dir = "x"
              THEN (IF variant = 1 THEN base[1] + h ELSE base[1] - h)
              ELSE base[1],
              IF dir = "y" THEN base[2] - h ELSE base[2]>>

\* lineGenerator of updateLinePaths: as in the draw (first variant); x never
\* offset and y always offset upwards (second variant)
UpdateLineVertex(variant, dir, proj, hs, p) ==
    IF variant = 1 THEN DrawVertex(variant, dir, proj, hs, p)
    ELSE LET base == Project(proj, p.lon, p.lat)
         IN IF base = <<>> THEN <<0, 0>>
            ELSE <<base[1], base[2] - HeightScale(hs, p.value)>>

\* cx / cy of updateLinePaths: x never offset and y always offset upwards
\* (first variant); as in the draw (second variant)
UpdatePointPos(variant, dir, proj, hs, p) ==
    IF variant = 2 THEN DrawVertex(variant, dir, proj, hs, p)
    ELSE LET base == Project(proj, p.lon, p.lat)
         IN IF base = <<>> THEN <<0, 0>>
            ELSE <<base[1], base[2] - HeightScale(hs, p.value)>>

\* pointData of the second variant's allPoints: isBasePoint is the point's own
\* when it has one (the baseline points), and else point.value === 0 ||
\* point.properties?.value === 0 (a data point's value is properties.value || 0)
AllPointsDatum(point) ==
    [point EXCEPT !.isBasePoint = point.isBasePoint \/ point.value = 0]

RECURSIVE Flatten(_, _)
Flatten(seqs, i) == IF i > Len(seqs) THEN <<>> ELSE seqs[i] \o Flatten(seqs, i + 1)

\* the data bound to the circles: the features themselves (first variant), the
\* closedPoints of every line (second variant)
PointData(variant, features, lineData) ==
    IF variant = 1 THEN [i \in 1..Len(features) |-> PointOf(features[i])]
    ELSE CHOOSE pointData \in
             { [i \in 1..Len(allPoints) |-> AllPointsDatum(allPoints[i])] :
                 allPoints \in { Flatten([i \in 1..Len(lineData) |->
                                             lineData[i].closedPoints], 1) } } : TRUE

\* path.horizontal-line elements after the data join of drawPointsMap
DrawLines(variant, dir, proj, hs, lineData) ==
    [i \in 1..Len(lineData) |->
        [data |-> lineData[i],
         d |-> [j \in 1..Len(lineData[i].closedPoints) |->
                   DrawVertex(variant, dir, proj, hs, lineData[i].closedPoints[j])]]]

\* circle.data-point elements after the data join of drawPointsMap
DrawCircles(variant, dir, proj, hs, pointData) ==
    [i \in 1..Len(pointData) |->
        [data |-> pointData[i],
         pos |-> DrawVertex(variant, dir, proj, hs, pointData[i])]]

\* the datum d3 hands to the attribute callbacks of element i: the one the
\* full draw bound to it
BoundDatumOfFirst(ls, i) == ls[1].data
BoundDatum(ls, i) == ls[i].data

\* updateLinePaths on the bound line data
UpdateLines(variant, dir, proj, hs, ls) ==
    [i \in 1..Len(ls) |->
        [data |-> BoundDatum(ls, i),
         d |-> [j \in 1..Len(BoundDatum(ls, i).closedPoints) |->
                   UpdateLineVertex(variant, dir, proj, hs,
                                    BoundDatum(ls, i).closedPoints[j])]]]

\* updateLinePaths on the circles: the bound data is kept (first variant) or
\* joined again from the lines' closedPoints (second variant)
UpdateCircles(variant, dir, proj, hs, ls, cs) ==
    LET pointData == IF variant = 1 THEN [i \in 1..Len(cs) |-> cs[i].data]
                     ELSE PointData(variant, <<>>, [i \in 1..Len(ls) |-> ls[i].data])
    IN [i \in 1..Len(pointData) |->
           [data |-> pointData[i],
            pos |-> UpdatePointPos(variant, dir, proj, hs, pointData[i])]]

\* ------------------------------------------------------------ data store
\* visitedCountries of the data store
visitedCountries ==
    << "Australia", "Austria", "Belgium", "Brunei", "China", "Czechia", "Denmark",
       "Estonia", "Finland", "France", "Germany", "Greece", "Greenland", "Hungary",
       "Iceland", "Italy", "Japan", "Laos", "Luxembourg", "Malaysia", "Mexico",
       "Mongolia", "Netherlands", "North Korea", "Norway", "Philippines", "Poland",
       "Qatar", "Singapore", "Slovakia", "South Korea", "Spain", "Sweden",
       "Switzerland", "Thailand", "United Kingdom", "United States of America",
       "Vietnam" >>

\* String.prototype.trim, for strings whose only white space is the space
RECURSIVE TrimStart(_)
TrimStart(s) ==
    IF Len(s) > 0 /\ SubSeq(s, 1, 1) = " " THEN TrimStart(SubSeq(s, 2, Len(s))) ELSE s

RECURSIVE TrimEnd(_)
TrimEnd(s) ==
    IF Len(s) > 0 /\ SubSeq(s, Len(s), Len(s)) = " "
    THEN TrimEnd(SubSeq(s, 1, Len(s) - 1)) ELSE s

Trim(s) == TrimEnd(TrimStart(s))

\* String.prototype.includes: part occurs in s; the empty string occurs in
\* every string
Includes(s, part) ==
    \/ Len(part) = 0
    \/ \E i \in 1..(Len(s) - Len(part) + 1) : SubSeq(s, i, i + Len(part) - 1) = part

\* isCountryVisited of the data store
isCountryVisited(countryName) ==
    IF ~countryName.given \/ Len(countryName.text) = 0 THEN FALSE
    ELSE LET normalizedName == Trim(countryName.text)
         IN \E i \in 1..Len(visitedCountries) :
               \/ normalizedName = visitedCountries[i]
               \/ Includes(normalizedName, visitedCountries[i])
               \/ Includes(visitedCountries[i], normalizedName)

\* ---------------------------------------------------------------- inputs
\* a country name: a string, or nothing (undefined, null)
CountryName(text) == [given |-> TRUE, text |-> text]
Missing == [given |-> FALSE, text |-> ""]

\* what a call of isCountryVisited returned, if it was called
NoResult == [returned |-> FALSE, value |-> FALSE]
Returned(value) == [returned |-> TRUE, value |-> value]

\* names a caller passes to isCountryVisited: the visited countries, their
\* first four and last four letters, and names that are not in the list
CountryNames ==
    { CountryName(visitedCountries[i]) : i \in 1..Len(visitedCountries) }
    \cup { CountryName(SubSeq(visitedCountries[i], 1, 4)) : i \in 1..Len(visitedCountries) }
    \cup { CountryName(SubSeq(visitedCountries[i], Len(visitedCountries[i]) - 3,
                              Len(visitedCountries[i]))) : i \in 1..Len(visitedCountries) }
    \cup { CountryName(s) : s \in { "", " ", "Taiwan", "Korea", "Republic of China",
                                    " Japan ", "Japan ", "United States", "Atlantis",
                                    "Niger", "japan", "Indonesia", "a" } }
    \cup { Missing }

\* bounding rectangles of the container: <<width, height>>
Sizes == { <<0, 0>>, <<400, 300>>, <<800, 600>> }

\* ----------------------------------------------------------------- state
VARIABLES
    variant,          \* which MapTab.vue the component is: 1 or 2
    mounted,          \* between onMounted and onUnmounted
    mapContainer,     \* the template ref and its bounding rectangle
    pointsData,       \* [loaded, features]
    drawDirection,    \* "y" or "x"
    svg,              \* [exists, width, height]
    projection,       \* [exists, rotate, scale, translate]
    path,             \* the path generator exists
    g,                \* the container group exists
    isMapReady,
    emitted,          \* number of map-ready events emitted
    mapInterface,     \* the object the last map-ready event carried to the host
    lines,            \* path.horizontal-line elements: bound data and vertices
    circles,          \* circle.data-point elements: bound data and position
    initPc,           \* where initMap is
    attempts,         \* attempts of tryCreateMap
    resizeObserver,   \* the observer is observing
    resizeTimeout,    \* the handle held in resizeTimeout is that of a pending timer
    timers,           \* number of debounce timers pending in the event loop
    burst,            \* notifications since the observer was last quiet: "none", "one", "many"
    reflows,          \* invalidateSize calls made by a debounce timer since the last notification
    groups,           \* the Map built by the last full draw
    lastOp,           \* the last operation that ran past its guard
    lastRect,         \* the rectangle read by the last createMap / navigate / invalidateSize
    sinceDraw,        \* what happened since the last full draw
    drawn,            \* the positions the last full draw gave, and its centre
    secondPass,       \* whether the last invalidateSize repeated the one before it
    store             \* the data store: mapInstance, the retry timer, the calls made

mapVars == << variant, mounted, mapContainer, pointsData, drawDirection, svg, projection,
           path, g, isMapReady, emitted, mapInterface, lines, circles, initPc, attempts,
           resizeObserver, resizeTimeout, timers, burst, reflows, groups, lastOp, lastRect, sinceDraw, drawn,
           secondPass >>

vars == << mapVars, store >>

NoSvg == [exists |-> FALSE, width |-> 0, height |-> 0]
NoData == [loaded |-> FALSE, features |-> <<>>]
\* what the host holds of the map before any map-ready event
NoInterface ==
    [svg |-> FALSE, projection |-> FALSE, path |-> FALSE, navigateToLocation |-> FALSE]
\* the store when the page loads: no map instance, no timer, nothing called
NoStore ==
    [mapInstance |-> FALSE, timers |-> 0, called |-> FALSE, navigated |-> FALSE,
     outside |-> FALSE,
     countryName |-> Missing, result |-> NoResult]
NoDrawn == [valid |-> FALSE, center |-> <<0, 0>>, lines |-> <<>>, circles |-> <<>>]

Positions(ls) == [i \in 1..Len(ls) |-> ls[i].d]
CirclePositions(cs) == [i \in 1..Len(cs) |-> cs[i].pos]

\* the state when onMounted has called initMap and setupResizeObserver
InitWith(sizes) ==
    /\ variant \in {1, 2}
    /\ mounted = TRUE
    /\ \E sz \in sizes : mapContainer = [present |-> TRUE, width |-> sz[1], height |-> sz[2]]
    /\ pointsData = NoData
    /\ drawDirection = "y"
    /\ svg = NoSvg
    /\ projection = NoProjection
    /\ path = FALSE
    /\ g = FALSE
    /\ isMapReady = FALSE
    /\ emitted = 0
    /\ mapInterface = NoInterface
    /\ lines = <<>>
    /\ circles = <<>>
    /\ initPc = "fetching"
    /\ attempts = 0
    /\ resizeObserver = TRUE
    /\ resizeTimeout = FALSE
    /\ timers = 0
    /\ burst = "none"
    /\ reflows = 0
    /\ groups = <<>>
    /\ lastOp = "onMounted"
    /\ lastRect = <<0, 0>>
    /\ sinceDraw = "none"
    /\ drawn = NoDrawn
    /\ secondPass = "no"

Init == InitWith(Sizes) /\ store = NoStore

\* --------------------------------------------------------- drawPointsMap
\* what one full draw computes from the features
FullDraw(features, dir, proj, height) ==
    CHOOSE r \in
        { [groups |-> SortedInPlace(variant, grps),
           lines |-> DrawLines(variant, dir, proj, hs, LineData(variant, grps)),
           circles |-> DrawCircles(variant, dir, proj, hs,
                                   PointData(variant, features, LineData(variant, grps)))] :
            hs \in { ScaleLinear(features, variant, height) },
            grps \in { GroupFeatures(features, dir) } } : TRUE

\* drawPointsMap on an empty g (after createMap, or after toggleDrawDirection
\* removed the elements): nothing is drawn for an empty collection (early
\* return) or when a feature without geometry throws into the catch
drawPointsMap(features, dir, proj, height) ==
    IF features # <<>> /\ ~Throws(features)
    THEN \E r \in { FullDraw(features, dir, proj, height) } :
            /\ lines' = r.lines
            /\ circles' = r.circles
            /\ groups' = r.groups
            /\ sinceDraw' = "drawn"
            /\ drawn' = [valid |-> TRUE,
                         center |-> <<0 - proj.rotate[1], 0 - proj.rotate[2]>>,
                         lines |-> Positions(r.lines),
                         circles |-> CirclePositions(r.circles)]
    ELSE /\ lines' = <<>>
         /\ circles' = <<>>
         /\ groups' = <<>>
         /\ sinceDraw' = "none"
         /\ drawn' = NoDrawn

\* ------------------------------------------------------- updateLinePaths
\* it returns at once without g, pointsData or the projection, and for an
\* empty collection
updateLinePaths(proj) ==
    LET features == pointsData.features
        hs == ScaleLinear(features, variant, mapContainer.height)
    IN IF ~g \/ ~pointsData.loaded \/ ~proj.exists \/ features = <<>>
       THEN UNCHANGED << lines, circles >>
       ELSE /\ lines' = UpdateLines(variant, drawDirection, proj, hs, lines)
            /\ circles' = UpdateCircles(variant, drawDirection, proj, hs, lines, circles)

\* ---------------------------------------------------- navigateToLocation
NavScaleKept(proj, width, height) == proj.scale
NavScale(proj, width, height) == ScaleFor(width, height)

\* if (!svg || !projection) return, at the head of navigateToLocation
NavigateNeverReturnsEarly(s, proj) == FALSE
NavigateReturnsEarly(s, proj) == ~s.exists \/ ~proj.exists

navigateToLocation(center) ==
    IF NavigateReturnsEarly(svg, projection)
    THEN UNCHANGED mapVars
    ELSE LET width == mapContainer.width
             height == mapContainer.height
             proj == [projection EXCEPT !.rotate = RotateFor(center),
                                        !.scale = NavScale(projection, width, height)]
             since == IF sinceDraw = "drawn" THEN "nav1"
                      ELSE IF sinceDraw = "nav1" /\ center = drawn.center THEN "navHome"
                      ELSE IF sinceDraw = "none" THEN "none"
                      ELSE "other"
         IN /\ projection' = proj
            /\ updateLinePaths(proj)
            /\ lastOp' = "navigateToLocation"
            /\ lastRect' = <<width, height>>
            /\ sinceDraw' = since
            /\ drawn' = IF since \in {"nav1", "navHome"} THEN drawn ELSE NoDrawn
            /\ secondPass' = "no"
            /\ UNCHANGED << variant, mounted, mapContainer, pointsData, drawDirection,
                            svg, path, g, isMapReady, emitted, mapInterface, initPc, attempts,
                            resizeObserver, resizeTimeout, timers, burst, reflows, groups >>

NavigateToLocation(centers) ==
    \E center \in centers : navigateToLocation(center) /\ UNCHANGED store

\* --------------------------------------------------------- invalidateSize
InvalidateScaleAccumulated(proj, width, height) ==
    proj.scale + ScaleFor(width, height) \div 2
InvalidateScale(proj, width, height) == ScaleFor(width, height)

invalidateSize ==
    IF ~svg.exists \/ ~mapContainer.present
    THEN UNCHANGED << variant, mounted, mapContainer, pointsData, drawDirection, svg,
                      projection, path, g, isMapReady, emitted, mapInterface, lines, circles, initPc,
                      attempts, resizeObserver, groups, lastOp, lastRect, sinceDraw,
                      drawn, secondPass >>
    ELSE LET width == mapContainer.width
             height == mapContainer.height
             proj == [projection EXCEPT !.translate = TranslateFor(width, height),
                                        !.scale = InvalidateScale(projection, width, height)]
         IN /\ svg' = [svg EXCEPT !.width = width, !.height = height]
            /\ projection' = proj
            /\ updateLinePaths(proj)
            /\ lastOp' = "invalidateSize"
            /\ lastRect' = <<width, height>>
            /\ sinceDraw' = IF sinceDraw = "none" THEN "none" ELSE "other"
            /\ drawn' = NoDrawn
            /\ secondPass' =
                  IF lastOp = "invalidateSize" /\ lastRect = <<width, height>>
                  THEN (IF /\ projection' = projection
                           /\ svg' = svg
                           /\ lines' = lines
                           /\ circles' = circles
                        THEN "same" ELSE "changed")
                  ELSE "no"
            /\ UNCHANGED << variant, mounted, mapContainer, pointsData, drawDirection,
                            path, g, isMapReady, emitted, mapInterface, initPc, attempts,
                            resizeObserver, groups >>

\* ------------------------------------------------- resize observer, timer
\* clearTimeout(resizeTimeout), called when resizeTimeout is set: the timer of
\* that handle, if it is still pending, is taken out of the event loop
ClearTimeoutSkipped(handlePending, n) == n
ClearTimeout(handlePending, n) == IF handlePending THEN n - 1 ELSE n

\* the container takes a size and the observer's callback runs: the pending
\* timer is cleared and a new one is set
ResizeNotify ==
    /\ resizeObserver
    /\ mapContainer.present
    /\ \E sz \in Sizes :
          /\ mapContainer' = [mapContainer EXCEPT !.width = sz[1], !.height = sz[2]]
          /\ IF <<mapContainer.width, mapContainer.height>> = sz \/ sinceDraw = "none"
             THEN UNCHANGED << sinceDraw, drawn >>
             ELSE sinceDraw' = "other" /\ drawn' = NoDrawn
    /\ timers' = ClearTimeout(resizeTimeout, timers) + 1
    /\ resizeTimeout' = TRUE
    /\ burst' = IF timers = 0 THEN "one" ELSE "many"
    /\ reflows' = 0
    /\ UNCHANGED << variant, mounted, pointsData, drawDirection, svg, projection, path,
                    g, isMapReady, emitted, mapInterface, lines, circles, initPc, attempts,
                    resizeObserver, groups, lastOp, lastRect, secondPass, store >>

\* the debounce timer fires after 200 ms without a new notification
ResizeTimerFire ==
    /\ timers > 0
    /\ timers' = timers - 1
    /\ resizeTimeout' = (timers - 1 > 0)
    /\ reflows' = reflows + 1
    /\ UNCHANGED << burst, store >>
    /\ invalidateSize

\* ------------------------------------------------ createMap, tryCreateMap
\* createMap returns true: the container exists and has a non-zero rectangle
createMapWithoutContainerCheck == TRUE
createMapSucceeds ==
    mapContainer.present /\ mapContainer.width # 0 /\ mapContainer.height # 0

\* if (attempts >= maxAttempts) return, at the head of tryCreateMap
AttemptsNeverExhausted(n) == FALSE
AttemptsExhausted(n) == n >= maxAttempts

\* mapInterface of createMap: svg, projection and path as they are when the
\* object is built, and the closure over navigateToLocation
MapInterfaceWithoutNavigate(s, proj, p) ==
    [svg |-> s.exists, projection |-> proj.exists, path |-> p,
     navigateToLocation |-> FALSE]
MapInterface(s, proj, p) ==
    [svg |-> s.exists, projection |-> proj.exists, path |-> p,
     navigateToLocation |-> TRUE]

\* one call of tryCreateMap; a successful createMap is followed by the draw
tryCreateMap(features) ==
    IF AttemptsExhausted(attempts)
    THEN /\ initPc' = "gaveUp"
         /\ UNCHANGED << variant, mounted, mapContainer, drawDirection, svg, projection,
                         path, g, isMapReady, emitted, mapInterface, lines, circles, attempts,
                         resizeObserver, resizeTimeout, timers, burst, reflows, groups, lastOp, lastRect,
                         sinceDraw, drawn, secondPass >>
    ELSE /\ attempts' = attempts + 1
         /\ IF createMapSucceeds
            THEN LET width == mapContainer.width
                     height == mapContainer.height
                     proj == [exists |-> TRUE,
                              rotate |-> RotateFor(InitialCenter),
                              scale |-> ScaleFor(width, height),
                              translate |-> TranslateFor(width, height)]
                 IN /\ svg' = [exists |-> TRUE, width |-> width, height |-> height]
                    /\ projection' = proj
                    /\ path' = TRUE
                    /\ g' = TRUE
                    /\ isMapReady' = TRUE
                    /\ emitted' = emitted + 1
                    /\ mapInterface' = MapInterface(svg', projection', path')
                    /\ initPc' = "created"
                    /\ lastOp' = "drawPointsMap"
                    /\ lastRect' = <<width, height>>
                    /\ secondPass' = "no"
                    /\ drawPointsMap(features, drawDirection, proj, height)
                    /\ UNCHANGED << variant, mounted, mapContainer, drawDirection,
                                    resizeObserver, resizeTimeout, timers, burst, reflows >>
            ELSE /\ initPc' = "retryPending"
                 /\ UNCHANGED << variant, mounted, mapContainer, drawDirection, svg,
                                 projection, path, g, isMapReady, emitted, mapInterface, lines,
                                 circles, resizeObserver, resizeTimeout, timers, burst, reflows, groups, lastOp,
                                 lastRect, sinceDraw, drawn, secondPass >>

\* pointsData.value = data, once fetch and response.json() have both resolved
ParsedDocumentUnfinished(features) == [loaded |-> FALSE, features |-> features]
ParsedDocument(features) == [loaded |-> TRUE, features |-> features]

\* if (!loaded) return, in initMap
initMapGoesOnAnyway(loaded) == FALSE
initMapReturnsEarly(loaded) == ~loaded

\* loadPointsData returns true and initMap goes on to the first tryCreateMap
loadPointsDataOk(documents) ==
    /\ initPc = "fetching"
    /\ \E features \in documents :
          /\ pointsData' = ParsedDocument(features)
          /\ tryCreateMap(features)
    /\ UNCHANGED store

\* loadPointsData returns false (fetch rejected, status not ok, or body not
\* JSON): initMap returns
loadPointsDataFails ==
    /\ initPc = "fetching"
    /\ IF initMapReturnsEarly(FALSE)
       THEN /\ initPc' = "loadFailed"
            /\ UNCHANGED << variant, mounted, mapContainer, pointsData, drawDirection,
                            svg, projection, path, g, isMapReady, emitted, mapInterface, lines,
                            circles, attempts, resizeObserver, resizeTimeout, timers, burst, reflows, groups,
                            lastOp, lastRect, sinceDraw, drawn, secondPass >>
       ELSE /\ tryCreateMap(pointsData.features)
            /\ UNCHANGED pointsData
    /\ UNCHANGED store

\* the 100 ms timer of a failed attempt fires
RetryTimerFire ==
    /\ initPc = "retryPending"
    /\ tryCreateMap(pointsData.features)
    /\ UNCHANGED << pointsData, store >>

\* ---------------------------------------------------- toggleDrawDirection
toggleDrawDirectionWithoutRedraw(direction) ==
    /\ mounted
    /\ drawDirection' = direction
    /\ UNCHANGED << variant, mounted, mapContainer, pointsData, svg, projection, path,
                    g, isMapReady, emitted, mapInterface, initPc, attempts,
                    resizeObserver, resizeTimeout, timers, burst, reflows, lastRect,
                    store, lines, circles, groups, sinceDraw, drawn, lastOp, secondPass >>
toggleDrawDirection(direction) ==
    /\ mounted
    /\ drawDirection' = direction
    /\ IF g /\ pointsData.loaded
       THEN /\ drawPointsMap(pointsData.features, direction, projection,
                             mapContainer.height)
            /\ lastOp' = "toggleDrawDirection"
            /\ secondPass' = "no"
       ELSE UNCHANGED << lines, circles, groups, sinceDraw, drawn, lastOp, secondPass >>
    /\ UNCHANGED << variant, mounted, mapContainer, pointsData, svg, projection, path,
                    g, isMapReady, emitted, mapInterface, initPc, attempts, resizeObserver,
                    resizeTimeout, timers, burst, reflows, lastRect, store >>

ToggleDrawDirection == \E direction \in {"y", "x"} : toggleDrawDirection(direction)

\* ------------------------------------------------------------ onUnmounted
onUnmounted ==
    /\ mounted
    /\ mounted' = FALSE
    /\ mapContainer' = [present |-> FALSE, width |-> 0, height |-> 0]
    /\ timers' = ClearTimeout(resizeTimeout, timers)
    /\ resizeTimeout' = FALSE
    /\ burst' = "none"
    /\ reflows' = 0
    /\ resizeObserver' = FALSE
    /\ svg' = NoSvg
    /\ projection' = NoProjection
    /\ path' = FALSE
    /\ g' = FALSE
    /\ isMapReady' = FALSE
    /\ lines' = <<>>
    /\ circles' = <<>>
    /\ groups' = <<>>
    /\ lastOp' = "onUnmounted"
    /\ secondPass' = "no"
    /\ sinceDraw' = "none"
    /\ drawn' = NoDrawn
    /\ UNCHANGED << variant, pointsData, drawDirection, emitted, mapInterface, initPc, attempts,
                    lastRect, store >>

\* ---------------------------------------------------------- specifications
Next ==
    \/ loadPointsDataOk(Datasets)
    \/ loadPointsDataFails
    \/ RetryTimerFire
    \/ ResizeNotify
    \/ ResizeTimerFire
    \/ NavigateToLocation({ InitialCenter, taiwanCenter })
    \/ ToggleDrawDirection
    \/ onUnmounted

Spec == Init /\ [][Next]_vars

\* documents a fetch can deliver when initialization is looked at on its own
SmallDatasets == { << FeaturePool[2] >>, <<>>, << Malformed >> }

\* initialization on its own: the fetch, the attempts of tryCreateMap and the
\* container changing size or going away, with no call from the host
NextInit ==
    \/ loadPointsDataOk(SmallDatasets)
    \/ loadPointsDataFails
    \/ RetryTimerFire
    \/ ResizeNotify
    \/ ResizeTimerFire
    \/ onUnmounted

\* the timers of the event loop fire and the fetch settles
Fairness ==
    /\ WF_vars(RetryTimerFire)
    /\ WF_vars(loadPointsDataOk(SmallDatasets) \/ loadPointsDataFails)

SpecInit == Init /\ [][NextInit]_vars /\ Fairness

\* the drawing on its own: a mounted component in a container of fixed size,
\* whose fetch delivers any collection of pool features
InitDraw == InitWith({ <<800, 600>>, <<400, 300>> }) /\ store = NoStore

NextDraw ==
    \/ loadPointsDataOk(Collections)
    \/ NavigateToLocation(Centers)
    \/ ToggleDrawDirection

SpecDraw == InitDraw /\ [][NextDraw]_vars

\* bounding rectangles of a small container that pass the size check of createMap
SmallSizes == { <<40, 30>>, <<64, 64>>, <<100, 80>> }

\* the component mounted in a small container
InitSmall == InitWith(SmallSizes) /\ store = NoStore

NextSmall ==
    \/ loadPointsDataOk(SmallDatasets)
    \/ ResizeNotify
    \/ ResizeTimerFire
    \/ NavigateToLocation({ InitialCenter, taiwanCenter })
    \/ ToggleDrawDirection
    \/ RetryTimerFire

SpecSmall == InitSmall /\ [][NextSmall]_vars

\* the data store's isCountryVisited on its own: a caller passes a name
InitCountry ==
    /\ InitWith({ <<800, 600>> })
    /\ \E name \in CountryNames : store = [NoStore EXCEPT !.countryName = name]

IsCountryVisitedCall ==
    /\ ~store.result.returned
    /\ store' = [store EXCEPT !.result = Returned(isCountryVisited(store.countryName))]
    /\ UNCHANGED mapVars

NextCountry == IsCountryVisitedCall

SpecCountry == InitCountry /\ [][NextCountry]_vars

\* setMapInstance(map), called by the host with the object map-ready carried
setMapInstance ==
    /\ mapInterface # NoInterface
    /\ ~store.mapInstance
    /\ store' = [store EXCEPT !.mapInstance = TRUE]
    /\ UNCHANGED mapVars

\* navigateToTaiwan on the store st: without a map instance it sets a timer
\* of 1000 ms and returns; with one it calls the instance's navigateToLocation
\* (outside records that such a call found the map not ready)
navigateToTaiwan(st) ==
    IF ~st.mapInstance
    THEN /\ store' = [st EXCEPT !.timers = @ + 1]
         /\ UNCHANGED mapVars
    ELSE /\ store' = [st EXCEPT !.navigated = TRUE,
                                !.outside = @ \/ ~isMapReady]
         /\ navigateToLocation(taiwanCenter)

\* the host calls navigateToTaiwan
NavigateToTaiwan ==
    /\ store.timers < MaxStoreTimers
    /\ navigateToTaiwan([store EXCEPT !.called = TRUE])

\* a timer of navigateToTaiwan fires: navigateToTaiwan is called again only
\* when the map instance is there by now
StoreTimerFire ==
    /\ store.timers > 0
    /\ IF store.mapInstance
       THEN navigateToTaiwan([store EXCEPT !.timers = @ - 1])
       ELSE /\ store' = [store EXCEPT !.timers = @ - 1]
            /\ UNCHANGED mapVars

\* the store and the map it navigates: the map is created when its container
\* has a size, the host hands the instance to the store at some time after
\* map-ready, and calls navigateToTaiwan, also after the map was unmounted
InitStore == InitWith({ <<0, 0>>, <<400, 300>> }) /\ store = NoStore

NextStore ==
    \/ loadPointsDataOk({ << FeaturePool[2] >> })
    \/ RetryTimerFire
    \/ ResizeNotify
    \/ ResizeTimerFire
    \/ onUnmounted
    \/ setMapInstance
    \/ NavigateToTaiwan
    \/ StoreTimerFire

\* the timers that nothing clears fire: the 1000 ms timer of the store and
\* the 100 ms retry timer (the resize timer is cleared by every notification)
FairnessStore ==
    /\ WF_vars(StoreTimerFire)
    /\ WF_vars(RetryTimerFire)

SpecStore == InitStore /\ [][NextStore]_vars /\ FairnessStore

\* ------------------------------------------------------------------ claims
loadedFeatures == pointsData.features

\* a feature as the {lon, lat, value} point the draw makes of it
AsPoint(f) ==
    [lon |-> f.lon, lat |-> f.lat,
     value |-> IF f.value = Undefined THEN 0 ELSE f.value, isBasePoint |-> FALSE]

Count(x, seq) == Cardinality({ i \in 1..Len(seq) : seq[i] = x })

\* the point lists of all drawn lines, concatenated
LinePoints == Flatten([i \in 1..Len(lines) |-> lines[i].data.points], 1)

\* the grid coordinate of a feature along the draw direction
GridAlong(f) == IF drawDirection = "y" THEN f.grid_y ELSE f.grid_x

\* the features whose group the variant draws as a line
InDrawnGroup(f) == variant = 2 \/ GridAlong(f) = Undefined \/ GridAlong(f) % 2 = 0

\* a full draw of well-formed features has been made for the current direction
FullyDrawn == g /\ pointsData.loaded /\ ~Throws(loadedFeatures)

\* the map was created and a document was loaded: a full draw has been called
\* for the current direction
DrawCalled == g /\ pointsData.loaded

\* the loaded features that carry coordinates and equal the point of f
SamePoint(f) ==
    { j \in 1..Len(loadedFeatures) :
        loadedFeatures[j].geometry /\ AsPoint(loadedFeatures[j]) = AsPoint(f) }

\* C1 as stated: for any loaded collection and either direction, the point
\* lists of the drawn line groups hold every loaded feature exactly once.
C1_EveryFeatureOnce ==
    DrawCalled =>
        /\ Len(LinePoints) = Len(loadedFeatures)
        /\ \A i \in 1..Len(loadedFeatures) :
              loadedFeatures[i].geometry
                 => Count(AsPoint(loadedFeatures[i]), LinePoints)
                      = Cardinality(SamePoint(loadedFeatures[i]))

\* C1 with the filter of the first variant granted: for any loaded collection
\* and either direction, the point lists of the drawn line groups hold exactly
\* once every loaded feature with coordinates whose group the variant draws
\* (every group in the second variant, the groups of even or absent grid
\* coordinate in the first), and no other point. C1 as stated implies it.
C1_DrawnFeaturesOnce ==
    DrawCalled =>
        /\ Len(LinePoints)
             = Cardinality({ j \in 1..Len(loadedFeatures) :
                                loadedFeatures[j].geometry /\ InDrawnGroup(loadedFeatures[j]) })
        /\ \A i \in 1..Len(loadedFeatures) :
              loadedFeatures[i].geometry
                 => Count(AsPoint(loadedFeatures[i]), LinePoints)
                      = Cardinality({ j \in SamePoint(loadedFeatures[i]) :
                                         InDrawnGroup(loadedFeatures[j]) })

\* the group of the Map that holds the point of the feature a under the key
\* the draw gave it (latKey / lonKey)
InGroup(a, group) ==
    /\ group.key = GroupKey(a, drawDirection)
    /\ \E m \in 1..Len(group.points) : group.points[m] = AsPoint(a)

\* two features share a group of the Map the draw built
ShareGroup(a, b) ==
    \E k \in 1..Len(groups) : InGroup(a, groups[k]) /\ InGroup(b, groups[k])

\* the coordinate of a feature along the grouping axis
AxisCoord(f) == IF drawDirection = "y" THEN f.lat ELSE f.lon

\* two coordinates (millidegrees) round to the same hundredth of a degree
\* under Math.round(c * 100) / 100
SameRounded(a, b) == RoundKey(a) = RoundKey(b)

\* C2: two features that both carry the grid index of the draw direction share
\* a group exactly when their grid indices are equal, whatever their
\* coordinates; two features that both lack it share a group exactly when
\* their coordinates along the axis round to the same hundredth of a degree
\* (a coordinate that ends in a half hundredth goes where its double goes).
C2_GroupingKey ==
    /\ (FullyDrawn /\ groups # <<>>) =>
        \A i, j \in 1..Len(loadedFeatures) :
            LET a == loadedFeatures[i]
                b == loadedFeatures[j]
            IN /\ (GridAlong(a) # Undefined /\ GridAlong(b) # Undefined)
                    => (ShareGroup(a, b) <=> GridAlong(a) = GridAlong(b))
               /\ (GridAlong(a) = Undefined /\ GridAlong(b) = Undefined)
                    => (ShareGroup(a, b) <=> SameRounded(AxisCoord(a), AxisCoord(b)))
    /\ (FullyDrawn /\ loadedFeatures = Ties) =>
          \* 0.145 and 0.140 are both keyed 0.14, 0.150 is keyed 0.15 (rows);
          \* 1.005 and 1.000 are both keyed 1, 1.010 is keyed 1.01 (columns)
          /\ ShareGroup(Ties[1], Ties[3]) <=> (drawDirection = "y")
          /\ ShareGroup(Ties[1], Ties[2]) <=> (drawDirection = "x")
          /\ ~ShareGroup(Ties[2], Ties[3])
    /\ (FullyDrawn /\ loadedFeatures = Twins) =>
          \* equal points of rows 0 and 2 are in two groups, of column 0 in one
          /\ ShareGroup(Twins[1], Twins[2]) <=> (drawDirection = "x")
          /\ ShareGroup(Twins[1], Twins[3]) <=> (drawDirection = "y")
          /\ \A i \in 1..3 : ShareGroup(Twins[i], Twins[i])

\* one row holds two features of different latitude, two rows hold features of
\* one latitude, and two features without grid index were merged by rounding
C2_Witness ==
    /\ FullyDrawn
    /\ drawDirection = "y"
    /\ \E i, j \in 1..Len(loadedFeatures) :
          LET a == loadedFeatures[i]
              b == loadedFeatures[j]
          IN /\ a.grid_y # Undefined /\ a.grid_y = b.grid_y /\ a.lat # b.lat
             /\ ShareGroup(a, b)
    /\ \E i, j \in 1..Len(loadedFeatures) :
          LET a == loadedFeatures[i]
              b == loadedFeatures[j]
          IN /\ a.grid_y = Undefined /\ b.grid_y = Undefined /\ a.lat # b.lat
             /\ ShareGroup(a, b)

\* C3: the points of every drawn group are in non-decreasing order of
\* longitude for a row group and of latitude for a column group, and the
\* groups are row groups exactly in 'y' mode.
C3_PointsSorted ==
    \A i \in 1..Len(lines) :
        LET pts == lines[i].data.points
        IN /\ lines[i].data.isYAxis = (drawDirection = "y")
           /\ \A m \in 1..(Len(pts) - 1) :
                 IF drawDirection = "y" THEN pts[m].lon <= pts[m + 1].lon
                 ELSE pts[m].lat <= pts[m + 1].lat

\* a drawn group whose features arrived in another order than it is drawn in
C3_Witness ==
    \E i \in 1..Len(lines) : \E k \in 1..Len(groups) :
        /\ groups[k].coord = lines[i].data.coord
        /\ groups[k].gridCoord = lines[i].data.gridCoord
        /\ Len(groups[k].points) = Len(lines[i].data.points)
        /\ groups[k].points = lines[i].data.points
        /\ GroupFeatures(loadedFeatures, drawDirection)[k].points # lines[i].data.points
        /\ Len(lines[i].data.points) >= 3

\* C4: avgValue of every drawn group is the sum of the values of its points
\* divided by their number, maxValue is the largest of those values; the four
\* points of row 0 with values 1, 2, 3, 4 give one group with avgValue 5/2
\* and maxValue 4.
C4_AvgAndMax ==
    /\ \A i \in 1..Len(lines) :
          LET d == lines[i].data
          IN /\ d.avgValue.den > 0
             /\ d.avgValue.num * Len(d.points) = SumValues(d.points, 1) * d.avgValue.den
             /\ \E m \in 1..Len(d.points) : d.points[m].value = d.maxValue
             /\ \A m \in 1..Len(d.points) : d.points[m].value <= d.maxValue
    /\ (FullyDrawn /\ loadedFeatures = ScenarioRow /\ drawDirection = "y")
          => /\ Len(lines) = 1
             /\ Len(lines[1].data.points) = 4
             /\ lines[1].data.avgValue = [num |-> 5, den |-> 2]
             /\ lines[1].data.maxValue = 4

\* the four points of row 0 have been drawn as one line
C4_Witness ==
    /\ FullyDrawn
    /\ loadedFeatures = ScenarioRow
    /\ drawDirection = "y"
    /\ Len(lines) = 1
    /\ [m \in 1..4 |-> lines[1].data.points[m].lon] = <<10000, 20000, 30000, 40000>>

\* the values of the loaded features
LoadedValues == { AsPoint(loadedFeatures[i]).value : i \in 1..Len(loadedFeatures) }

AllValuesAtLeast(v) == \A w \in LoadedValues : v <= w
AllValuesAtMost(v) == \A w \in LoadedValues : w <= v

\* the circles of the document
VisibleCircles == 1..Len(circles)

\* how far circle i stands from the projected position of its point, measured
\* along the offset direction of the variant: up in 'y' mode, right (first
\* variant) or left (second variant) in 'x' mode
CircleOffset(i) ==
    LET base == Project(projection, circles[i].data.lon, circles[i].data.lat)
        pos == circles[i].pos
    IN IF drawDirection = "y" THEN base[2] - pos[2]
       ELSE IF variant = 1 THEN pos[1] - base[1]
       ELSE base[1] - pos[1]

\* the fixed fraction of the container height: 0.075 (first variant), 0.1
\* (second variant)
HeightFraction1000 == IF variant = 1 THEN 75 ELSE 100

\* C5: after a full draw of features whose values are not all equal, the
\* offset of every point is the linear image of its value (to the rounding of
\* one screen unit), is 0 for the least value and maxHeightOffset for the
\* greatest, never decreases with the value, and maxHeightOffset is the fixed
\* fraction of the container height; in a 800x600 container with fraction 0.1
\* and values 0, 5, 10 the feature of value 5 is offset by 30 px.
C5_HeightScaleLinear ==
    /\ (FullyDrawn /\ sinceDraw = "drawn") =>
          \A lo, hi \in LoadedValues :
             (lo < hi /\ AllValuesAtLeast(lo) /\ AllValuesAtMost(hi)) =>
                LET M == (mapContainer.height * SubPx * HeightFraction1000) \div 1000
                IN /\ M * 1000 = mapContainer.height * SubPx * HeightFraction1000
                   /\ \A i \in VisibleCircles :
                         LET v == circles[i].data.value
                             off == CircleOffset(i)
                         IN /\ off * (hi - lo) <= (v - lo) * M
                            /\ (v - lo) * M < (off + 1) * (hi - lo)
                            /\ (v = lo) => (off = 0)
                            /\ (v = hi) => (off = M)
                            /\ \A j \in VisibleCircles :
                                  (circles[j].data.value <= v) => (CircleOffset(j) <= off)
    /\ (/\ FullyDrawn /\ sinceDraw = "drawn" /\ variant = 2
        /\ loadedFeatures = ScenarioRange
        /\ mapContainer.width = 800 /\ mapContainer.height = 600)
          => \A i \in VisibleCircles :
                (circles[i].data.value = 5) => (CircleOffset(i) = 30 * SubPx)

\* the feature of value 5 has been drawn in the 800x600 container, between
\* features of value 0 and 10, in the second variant
C5_Witness ==
    /\ FullyDrawn /\ sinceDraw = "drawn" /\ variant = 2
    /\ loadedFeatures = ScenarioRange
    /\ mapContainer.width = 800 /\ mapContainer.height = 600
    /\ \E i \in VisibleCircles : circles[i].data.value = 5 /\ ~circles[i].data.isBasePoint
    /\ \E i \in VisibleCircles : circles[i].data.value = 10

\* C6 as stated: when all loaded features have the same value, every circle
\* and every line vertex is at the projected position of its point, with no
\* offset, after the full draw and after every reflow.
C6_DegenerateOffsetZero ==
    (FullyDrawn /\ Cardinality(LoadedValues) = 1) =>
        /\ \A i \in VisibleCircles :
              ~circles[i].data.isBasePoint =>
                 circles[i].pos = Project(projection, circles[i].data.lon, circles[i].data.lat)
        /\ \A i \in 1..Len(lines) : \A j \in 1..Len(lines[i].d) :
              LET p == lines[i].data.closedPoints[j]
              IN ~p.isBasePoint => lines[i].d[j] = Project(projection, p.lon, p.lat)

\* C7 as stated: after a full draw, navigateToLocation(P) followed by
\* navigateToLocation of the centre the map was drawn with, with no resize in
\* between, leaves every line vertex and every circle at the screen
\* coordinates the full draw gave it.
C7_RoundTripRestores ==
    (sinceDraw = "navHome" /\ drawn.valid) =>
        /\ Positions(lines) = drawn.lines
        /\ CirclePositions(circles) = drawn.circles

\* C8: an invalidateSize pass that follows an invalidateSize pass, with no
\* other operation in between and the same container size read, changes no
\* projection parameter (scale, translate, rotation), no svg size and no
\* screen coordinate of a line vertex or a circle.
C8_SecondPassChangesNothing ==
    [][(/\ lastOp = "invalidateSize"
        /\ lastOp' = "invalidateSize"
        /\ lastRect' = lastRect
        /\ mapContainer' = mapContainer)
          => /\ projection' = projection
             /\ svg' = svg
             /\ Positions(lines') = Positions(lines)
             /\ CirclePositions(circles') = CirclePositions(circles)]_vars

\* a second pass has run on a drawn map with the size of the first
C8_Witness ==
    /\ secondPass = "same"
    /\ lastOp = "invalidateSize"
    /\ lines # <<>>
    /\ circles # <<>>
    /\ lastRect = <<400, 300>>

\* C9: whenever the projection exists its scale is min(W - 64, H - 64) / 0.08
\* for the container size (W, H) read by the most recent of createMap,
\* navigateToLocation and invalidateSize.
C9_ScaleFromLastRect ==
    projection.exists =>
        /\ lastOp \in {"drawPointsMap", "toggleDrawDirection", "navigateToLocation",
                       "invalidateSize"}
        /\ projection.scale * 8
             = Min(lastRect[1] - 64, lastRect[2] - 64) * 100 * SubPx

\* a navigation has read a container size the svg has not been resized to yet
C9_Witness ==
    /\ projection.exists
    /\ lastOp = "navigateToLocation"
    /\ lastRect = <<400, 300>>
    /\ svg.width = 800
    /\ resizeTimeout

\* C10 as stated: a call of navigateToLocation leaves the scale of the
\* projection as it was, whatever resize notifications, debounce timer firings
\* and navigations came before.
C10_NavigateKeepsScale ==
    [][(projection.exists /\ lastOp' = "navigateToLocation" /\ projection' # projection)
          => projection'.scale = projection.scale]_vars

\* C11: a reflow (navigateToLocation or invalidateSize) leaves the drawn
\* lines, the points of every group and their order, and every group's
\* avgValue and maxValue as they were: grouping is not run again.
C11_ReflowKeepsGroups ==
    [][(lastOp' \in {"navigateToLocation", "invalidateSize"})
          => /\ Len(lines') = Len(lines)
             /\ \A i \in 1..Len(lines) :
                   /\ lines'[i].data.points = lines[i].data.points
                   /\ lines'[i].data.closedPoints = lines[i].data.closedPoints
                   /\ lines'[i].data.coord = lines[i].data.coord
                   /\ lines'[i].data.gridCoord = lines[i].data.gridCoord
                   /\ lines'[i].data.avgValue = lines[i].data.avgValue
                   /\ lines'[i].data.maxValue = lines[i].data.maxValue
             /\ groups' = groups]_vars

\* a navigation has moved the vertices of several drawn lines
C11_Witness ==
    /\ sinceDraw = "nav1"
    /\ lastOp = "navigateToLocation"
    /\ Len(lines) >= 2
    /\ \E i \in 1..Len(lines) : Len(lines[i].data.points) >= 2
    /\ Positions(lines) # drawn.lines

\* C12: the svg, the projection, every line and every circle exist only in
\* states where the fetch has completed and pointsData holds the parsed
\* document; createMap is not even attempted before that, and map-ready is not
\* emitted before that.
C12_NothingBeforeLoad ==
    (\/ svg.exists \/ projection.exists \/ path \/ g \/ isMapReady
     \/ lines # <<>> \/ circles # <<>> \/ attempts > 0 \/ emitted > 0
     \/ initPc \in {"created", "retryPending", "gaveUp"})
        => pointsData.loaded

\* a redraw was asked for while the fetch was still outstanding, and nothing
\* was created or drawn
C12_Witness ==
    /\ initPc = "fetching"
    /\ drawDirection = "x"
    /\ resizeTimeout
    /\ ~svg.exists
    /\ lines = <<>>

\* C13: once the fetch has failed, createMap has never been attempted, nothing
\* was created, isMapReady is false and map-ready was never emitted, and the
\* fetch is not started again.
C13_LoadFailureIsFinal ==
    /\ []((initPc # "fetching" /\ ~pointsData.loaded)
            => /\ initPc = "loadFailed"
               /\ attempts = 0
               /\ ~svg.exists /\ ~projection.exists /\ ~g
               /\ ~isMapReady
               /\ emitted = 0
               /\ lines = <<>> /\ circles = <<>>)
    /\ [][(initPc = "loadFailed")
            => /\ initPc' = "loadFailed"
               /\ pointsData' = pointsData
               /\ attempts' = 0
               /\ emitted' = 0]_vars

\* the fetch has failed and the component went on living: resize
\* notifications, a debounce reflow and a toggle came after it
C13_Witness ==
    /\ initPc = "loadFailed"
    /\ mounted
    /\ drawDirection = "x"
    /\ mapContainer.width = 400
    /\ ~resizeTimeout

\* C14 as stated: a document that parses but carries no feature never ends
\* in a created map with nothing drawn: nothing is created and map-ready is not
\* emitted for it.
C14_EmptyDocumentIsLoadFailure ==
    (pointsData.loaded /\ loadedFeatures = <<>>)
        => /\ ~svg.exists
           /\ ~isMapReady
           /\ emitted = 0

\* C17 as stated: no pass computes projection parameters from a container of
\* zero width or zero height: the rectangle read by the last createMap,
\* navigateToLocation or invalidateSize that set the projection is not empty.
C17_NoPassOnZeroSize ==
    projection.exists => (lastRect[1] > 0 /\ lastRect[2] > 0)

\* a feature with its coordinates and its value
WellFormed(f) == f.geometry /\ f.value # Undefined

\* C15 as stated: when the loaded collection holds a feature without
\* coordinates or without value, a full draw leaves that feature out and still
\* draws every other feature whose group is drawn.
C15_MalformedFeatureSkipped ==
    (/\ g /\ pointsData.loaded
     /\ \E i \in 1..Len(loadedFeatures) : ~WellFormed(loadedFeatures[i]))
        => /\ \A i \in 1..Len(loadedFeatures) :
                 (WellFormed(loadedFeatures[i]) /\ InDrawnGroup(loadedFeatures[i]))
                    => Count(AsPoint(loadedFeatures[i]), LinePoints) >= 1
           /\ Len(LinePoints)
                = Cardinality({ i \in 1..Len(loadedFeatures) :
                                   WellFormed(loadedFeatures[i])
                                   /\ InDrawnGroup(loadedFeatures[i]) })

\* C18 as stated: after the 20th failed attempt no further retry timer is
\* scheduled.
C18_NoTimerAfterLastAttempt ==
    (initPc = "retryPending") => (attempts < maxAttempts)

\* C18 amended: createMap is attempted at most 20 times; a retry timer is
\* pending only after a failed attempt; after a success, and after giving up,
\* no timer is scheduled and no attempt is made; the 20th failed attempt still
\* schedules one timer, and the firing of that timer makes no attempt and
\* gives up; once the fetch has succeeded, initialization ends created or
\* given up.
C18_BoundedAcquisition ==
    /\ [](attempts <= maxAttempts)
    /\ []((initPc = "retryPending")
            => (attempts >= 1 /\ emitted = 0 /\ ~svg.exists /\ ~isMapReady))
    /\ []((initPc = "gaveUp") => (attempts = maxAttempts /\ emitted = 0 /\ ~svg.exists))
    /\ []((initPc = "created") => (attempts >= 1 /\ emitted = 1))
    /\ [][(initPc \in {"created", "gaveUp"})
            => (initPc' = initPc /\ attempts' = attempts /\ emitted' = emitted)]_vars
    /\ [][(initPc = "retryPending" /\ attempts < maxAttempts)
            => (initPc' = "retryPending" /\ attempts' = attempts)
               \/ (initPc' \in {"created", "retryPending"} /\ attempts' = attempts + 1)]_vars
    /\ [][(initPc = "retryPending" /\ attempts = maxAttempts)
            => (initPc' = "retryPending" /\ attempts' = attempts)
               \/ (initPc' = "gaveUp" /\ attempts' = attempts /\ ~svg'.exists)]_vars
    /\ (pointsData.loaded ~> (initPc \in {"created", "gaveUp"}))

\* the 20th attempt has failed and a retry timer is pending once more
C18_Witness ==
    /\ initPc = "retryPending"
    /\ attempts = maxAttempts
    /\ mounted
    /\ mapContainer.width = 0

\* C19: when the component was unmounted before the map was created, then in
\* every later state there is no svg, no projection, no group, no line and no
\* circle, isMapReady is false, and map-ready is never emitted.
C19_NothingAfterEarlyUnmount ==
    /\ []((~mounted /\ emitted = 0)
            => /\ ~svg.exists /\ ~projection.exists /\ ~path /\ ~g
               /\ lines = <<>> /\ circles = <<>>
               /\ ~isMapReady
               /\ initPc # "created")
    /\ [][(~mounted /\ emitted = 0)
            => (~mounted' /\ emitted' = 0 /\ ~svg'.exists /\ lines' = <<>>)]_vars

\* the component was unmounted before any map was created; the fetch then
\* delivered features and every attempt of createMap failed
C19_Witness ==
    /\ ~mounted
    /\ emitted = 0
    /\ pointsData.loaded
    /\ loadedFeatures # <<>>
    /\ ~Throws(loadedFeatures)
    /\ initPc = "gaveUp"
    /\ lastOp = "onUnmounted"

\* C20: at most one debounce timer is pending at any time; a burst of
\* notifications, however long, has exactly one invalidateSize call to its
\* name, pending or made, and the call is made after the last notification of
\* the burst, by the one pending timer; after unmount no timer is pending and
\* no timer calls invalidateSize.
C20_ResizeDebounced ==
    /\ [](/\ timers <= 1
          /\ (burst = "none") => (timers = 0 /\ reflows = 0)
          /\ (burst # "none") => (timers + reflows = 1)
          /\ ~mounted => (timers = 0 /\ reflows = 0))
    /\ [][(reflows' > reflows)
            => /\ mounted
               /\ timers = 1 /\ timers' = 0
               /\ reflows = 0 /\ reflows' = 1
               /\ burst' = burst
               /\ svg.exists
                    => /\ lastOp' = "invalidateSize"
                       /\ lastRect' = <<mapContainer.width, mapContainer.height>>
                       /\ svg'.width = mapContainer.width
                       /\ svg'.height = mapContainer.height]_vars
    /\ [][(timers' > timers) => (reflows' = 0 /\ burst' # "none")]_vars

\* a burst of several notifications has ended in one reflow of a drawn map
C20_Witness ==
    /\ burst = "many"
    /\ reflows = 1
    /\ timers = 0
    /\ lastOp = "invalidateSize"
    /\ lines # <<>>

\* C21: map-ready is emitted at most once in the mounted lifetime; it is
\* emitted by the step that constructed the svg, the projection and the path
\* generator, and the object it carries holds all three and the
\* navigateToLocation operation; no toggle of the draw direction, resize
\* notification, reflow or navigation emits it or changes what the host holds.
C21_MapReadyOnce ==
    /\ [](emitted <= 1)
    /\ []((emitted = 0) <=> (mapInterface = NoInterface))
    /\ [][(emitted' # emitted)
            => /\ emitted = 0 /\ emitted' = 1
               /\ mounted'
               /\ ~svg.exists /\ svg'.exists
               /\ projection'.exists /\ path' /\ g' /\ isMapReady'
               /\ mapInterface' = [svg |-> TRUE, projection |-> TRUE, path |-> TRUE,
                                   navigateToLocation |-> TRUE]
               /\ initPc' = "created"]_vars
    /\ [][(\/ lastOp' \in {"toggleDrawDirection", "navigateToLocation", "invalidateSize"}
           \/ drawDirection' # drawDirection
           \/ timers' # timers
           \/ mapContainer' # mapContainer)
            => (emitted' = emitted /\ mapInterface' = mapInterface)]_vars

\* the map was created, then navigated, drawn in the other direction and
\* reflowed after a resize, and map-ready was emitted once
C21_Witness ==
    /\ emitted = 1
    /\ mapInterface.navigateToLocation
    /\ drawDirection = "x"
    /\ projection.exists
    /\ projection.rotate = RotateFor(taiwanCenter)
    /\ lastOp = "invalidateSize"
    /\ lines # <<>>

\* C22: isCountryVisited(name) returns true exactly when name is an element
\* of visitedCountries, and false for every other name, an empty name and a
\* missing name.
C22_VisitedExactlyListed ==
    store.result.returned
        => (store.result.value
              <=> /\ store.countryName.given
                  /\ \E i \in 1..Len(visitedCountries) :
                        visitedCountries[i] = store.countryName.text)

\* C23: once navigateToTaiwan has been called and the map instance has been
\* set, however long after the call, the map is eventually navigated to
\* taiwanCenter.
C23_EventuallyNavigated ==
    (store.called /\ store.mapInstance) ~> store.navigated

\* the sum of the spacings between consecutive points, from point i on
RECURSIVE SumSpacing(_, _, _)
SumSpacing(pts, isYAxis, i) ==
    IF i >= Len(pts) THEN 0
    ELSE (CrossCoord(pts[i + 1], isYAxis) - CrossCoord(pts[i], isYAxis))
         + SumSpacing(pts, isYAxis, i + 1)

\* the mean spacing of a group's points, or 0.01 degree for a single point
MeanSpacing(pts, isYAxis) ==
    IF Len(pts) > 1 THEN SumSpacing(pts, isYAxis, 1) \div (Len(pts) - 1) ELSE 10

\* C24: where baseline endpoints are added (second variant), every line's
\* vertex sequence is the first baseline point, the group's sorted points, the
\* last baseline point; both baseline points have value 0 and lie one step
\* before the first and one step after the last point along the cross axis,
\* the step being the mean spacing of the group's points, or 0.01 degree for a
\* group of one point; one vertex is drawn for each of them.
C24_BaselineEndpoints ==
    variant = 2 =>
        \A i \in 1..Len(lines) :
            LET datum == lines[i].data
                pts == datum.points
                cp == datum.closedPoints
                n == Len(pts)
                step == MeanSpacing(pts, datum.isYAxis)
            IN /\ n >= 1
               /\ Len(cp) = n + 2
               /\ SubSeq(cp, 2, n + 1) = pts
               /\ \A j \in 1..n : ~pts[j].isBasePoint
               /\ cp[1].isBasePoint /\ cp[1].value = 0
               /\ cp[n + 2].isBasePoint /\ cp[n + 2].value = 0
               /\ CrossCoord(cp[1], datum.isYAxis) = CrossCoord(pts[1], datum.isYAxis) - step
               /\ CrossCoord(cp[n + 2], datum.isYAxis)
                     = CrossCoord(pts[n], datum.isYAxis) + step
               /\ Len(lines[i].d) = n + 2

\* a line of three points whose two spacings differ, between its baseline points
C24_Witness ==
    /\ variant = 2
    /\ \E i \in 1..Len(lines) :
          LET pts == lines[i].data.points
              isY == lines[i].data.isYAxis
          IN /\ Len(pts) = 3
             /\ CrossCoord(pts[2], isY) - CrossCoord(pts[1], isY)
                   # CrossCoord(pts[3], isY) - CrossCoord(pts[2], isY)
             /\ Len(lines[i].data.closedPoints) = 5

\* C25: after a reflow pass (updateLinePaths, here run by navigateToLocation)
\* every line vertex and every circle is at the screen coordinates a full
\* draw would compute under the same projection and draw direction.
C25_ReflowEqualsDraw ==
    (lastOp = "navigateToLocation" /\ sinceDraw # "none") =>
        \E r \in { FullDraw(loadedFeatures, drawDirection, projection, mapContainer.height) } :
            /\ Positions(lines) = Positions(r.lines)
            /\ CirclePositions(circles) = CirclePositions(r.circles)

\* C26: whatever toggleDrawDirection calls were made, before or after the map
\* became ready, every group and every drawn line was built for the current
\* drawDirection (isYAxis is true exactly when drawDirection is 'y'), and
\* every circle made from line vertices belongs to a line that is drawn now.
C26_LinesOfCurrentDirection ==
    /\ \A i \in 1..Len(lines) : lines[i].data.isYAxis <=> (drawDirection = "y")
    /\ \A i \in 1..Len(groups) : groups[i].isYAxis <=> (drawDirection = "y")
    /\ variant = 2 =>
          \A i \in 1..Len(circles) :
              \E k \in 1..Len(lines) :
                  \E j \in 1..Len(lines[k].data.closedPoints) :
                      AllPointsDatum(lines[k].data.closedPoints[j]) = circles[i].data
    /\ variant = 1 =>
          \A i \in 1..Len(circles) : \E k \in 1..Len(loadedFeatures) :
              circles[i].data = PointOf(loadedFeatures[k])

\* the map was redrawn in 'x' direction by a toggle and shows several lines
C26_Witness ==
    /\ drawDirection = "x"
    /\ lastOp = "toggleDrawDirection"
    /\ Len(lines) >= 2
    /\ circles # <<>>
    /\ \A i \in 1..Len(lines) : ~lines[i].data.isYAxis

\* C27: whenever the projection exists, its translate and its scale come from
\* one and the same container size (W, H): translate = (W/2, H/2) and
\* scale = min(W - 64, H - 64) / 0.08.
C27_TranslateAndScaleOfOneSize ==
    projection.exists =>
        \E sz \in Sizes :
            /\ projection.translate = TranslateFor(sz[1], sz[2])
            /\ projection.scale = ScaleFor(sz[1], sz[2])

\* C28: outside the ready lifetime of the map (before createMap succeeded and
\* after unmount) there is no svg, projection, path, group, line or circle; a
\* navigateToLocation made through the interface the host retained after
\* unmount, and an invalidateSize made by a debounce timer before the map was
\* created, change nothing of the map.
C28_NoOpOutsideReadyLifetime ==
    /\ [](~isMapReady
            => /\ ~svg.exists /\ ~projection.exists /\ ~path /\ ~g
               /\ lines = <<>> /\ circles = <<>>)
    /\ [][(~mounted /\ store.mapInstance) => UNCHANGED mapVars]_vars
    /\ [][(~isMapReady /\ store' # store) => UNCHANGED mapVars]_vars
    /\ [][(~isMapReady /\ reflows' > reflows)
            => UNCHANGED << variant, mounted, mapContainer, pointsData, drawDirection,
                            svg, projection, path, g, isMapReady, emitted, mapInterface,
                            lines, circles, initPc, attempts, resizeObserver, groups,
                            lastOp, lastRect, sinceDraw, drawn, secondPass >>]_vars

\* after unmount the host navigated through the interface it had kept
C28_Witness ==
    /\ ~mounted
    /\ ~isMapReady
    /\ emitted = 1
    /\ store.mapInstance
    /\ mapInterface.navigateToLocation
    /\ store.outside
    /\ ~svg.exists /\ ~projection.exists /\ lines = <<>>

\* C29: after a full draw every circle stands on a vertex of a drawn line: a
\* line has a vertex with the circle's longitude, latitude and value, drawn at
\* the circle's position; no circle is drawn for a feature whose group has no
\* line.
C29_PointsOnDrawnLines ==
    sinceDraw = "drawn" =>
        \A i \in 1..Len(circles) :
            \E k \in 1..Len(lines) :
                \E j \in 1..Len(lines[k].data.closedPoints) :
                    /\ lines[k].data.closedPoints[j].lon = circles[i].data.lon
                    /\ lines[k].data.closedPoints[j].lat = circles[i].data.lat
                    /\ lines[k].data.closedPoints[j].value = circles[i].data.value
                    /\ lines[k].d[j] = circles[i].pos

\* C30: whenever the projection exists its scale is strictly positive, for
\* every container size that passed the size check of createMap and every
\* later resize.
C30_ScalePositive ==
    projection.exists => projection.scale > 0

====
